---- MODULE Spec2Model ----
(***************************************************************************)
(* A model of the Cascade bit-string value type (src/base/bits/bits.h),    *)
(* its binary codec, and the stub compute core                             *)
(* (src/cascade/target/compiler/stub_core.h).                              *)
(*                                                                         *)
(* A Bits object is the record [size |-> size_, val |-> val_].  val_ is a  *)
(* GMP integer: it is signed and unbounded, and GMP's bitwise functions    *)
(* act on its infinite two's-complement form.  The model keeps val_ as an  *)
(* Int, so a value the code leaves negative or wider than size_ is         *)
(* representable.                                                          *)
(***************************************************************************)
EXTENDS Integers, Sequences, FiniteSets, TLC

VARIABLES
  \* a Bits object (the receiver of every operation) and a second one (the
  \* right-hand side), the two objects as they were before the last call,
  \* the last call with its arguments, whether the process is still running,
  \* the number of calls made, and what the last const member function
  \* returned (a bool as 0 or 1)
  a, b, pre, call, status, steps, result,
  \* the binary codec: the object serialized, the object deserialized into,
  \* the output stream, the input stream, the two return values, the phase
  src, dst, os, is, ret, phase,
  \* the stub core, the calls made on it, the last query with its result,
  \* and the number of calls
  core, scall, out, ncalls

bitsVars == <<a, b, pre, call, status, steps, result>>
codecVars == <<src, dst, os, is, ret, phase>>
stubVars == <<core, scall, out, ncalls>>
vars == <<bitsVars, codecVars, stubVars>>

(***************************************************************************)
(* Bounds of the model.                                                    *)
(***************************************************************************)
\* widths of the values built by the constructor Bits(n, val)
MaxW == 3
\* number of operations applied to a constructed pair of values
MaxOps == 1
\* largest width of the values whose words are read and written
MaxWordW == 12
\* largest shift amount / exponent handed to a shift or to arithmetic_pow
MaxAmt == 8
\* largest base handed to arithmetic_pow
MaxBase == 8
\* longest output of serialize that is also cut short before it is read back
MaxStream == 6
\* number of calls made on a stub core
MaxCalls == 2

\* uint16_t size_: sizes are stored modulo 2^16
UINT16 == 65536

Abs(x) == IF x >= 0 THEN x ELSE -x

(***************************************************************************)
(* GMP functions, as the code uses them.                                   *)
(***************************************************************************)
RECURSIVE mpz_and(_, _)
mpz_and(x, y) ==
  IF x = 0 \/ y = 0 THEN 0
  ELSE IF x = -1 THEN y
  ELSE IF y = -1 THEN x
  ELSE ((x % 2) * (y % 2)) + 2 * mpz_and(x \div 2, y \div 2)

mpz_com(x) == -x - 1

RECURSIVE mpz_ior(_, _)
mpz_ior(x, y) ==
  IF x = 0 THEN y
  ELSE IF y = 0 THEN x
  ELSE IF x = -1 \/ y = -1 THEN -1
  ELSE (IF x % 2 = 1 \/ y % 2 = 1 THEN 1 ELSE 0) + 2 * mpz_ior(x \div 2, y \div 2)

RECURSIVE mpz_xor(_, _)
mpz_xor(x, y) ==
  IF x = 0 THEN y
  ELSE IF y = 0 THEN x
  ELSE IF x = -1 THEN mpz_com(y)
  ELSE IF y = -1 THEN mpz_com(x)
  ELSE (((x % 2) + (y % 2)) % 2) + 2 * mpz_xor(x \div 2, y \div 2)

mpz_mul_2exp(x, n) == x * (2 ^ n)

\* quotient rounded towards zero
mpz_tdiv_q_2exp(x, n) == IF x >= 0 THEN x \div (2 ^ n) ELSE -((-x) \div (2 ^ n))

\* quotient rounded towards minus infinity
mpz_fdiv_q_2exp(x, n) == x \div (2 ^ n)

\* The bit index is an unsigned 64-bit number: an index the code computes as
\* a negative difference wraps to 2^64 + i, which lies above every stored
\* bit, where a non-negative value reads 0 and a negative value reads 1.
mpz_tstbit(x, i) == IF i < 0 THEN x < 0 ELSE (x \div (2 ^ i)) % 2 = 1

mpz_setbit(x, i) == IF mpz_tstbit(x, i) THEN x ELSE x + (2 ^ i)
mpz_clrbit(x, i) == IF mpz_tstbit(x, i) THEN x - (2 ^ i) ELSE x
mpz_combit(x, i) == IF mpz_tstbit(x, i) THEN x - (2 ^ i) ELSE x + (2 ^ i)

\* number of 1 bits of a non-negative value
RECURSIVE PopCount(_)
PopCount(x) == IF x = 0 THEN 0 ELSE (x % 2) + PopCount(x \div 2)

\* mpz_popcount(x) = size for a size_t size: a negative x gives the largest
\* unsigned long, which no size equals.
mpz_popcount_is(x, n) == x >= 0 /\ PopCount(x) = n

mpz_odd_p(x) == x % 2 = 1
mpz_even_p(x) == x % 2 = 0

\* quotient rounded towards zero; the divisor is not 0
mpz_tdiv_q(n, d) ==
  LET q == Abs(n) \div Abs(d)
  IN IF (n >= 0) = (d >= 0) THEN q ELSE -q

\* the remainder is never negative and the sign of the divisor is ignored
mpz_mod(n, d) == n % Abs(d)

RECURSIVE mpz_pow_ui(_, _)
mpz_pow_ui(x, e) == IF e = 0 THEN 1 ELSE x * mpz_pow_ui(x, e - 1)

\* the low bits of the absolute value
mpz_get_ui(x) == Abs(x)

mpz_cmp(x, y) == IF x < y THEN -1 ELSE IF x > y THEN 1 ELSE 0

(***************************************************************************)
(* Bits: constructors, casts and size.                                     *)
(***************************************************************************)
trim_to(x, n) == [x EXCEPT !.val = mpz_and(x.val, (2 ^ n) - 1)]

trim(x) == trim_to(x, x.size)

BitsDefault == [size |-> 1, val |-> 0]

BitsCtor(n, v) == trim([size |-> n % UINT16, val |-> v])

to_bool(x) == mpz_cmp(x.val, 0) # 0

to_int(x) == mpz_get_ui(x.val)

size(x) == x.size

resize(x, n) ==
  LET t == IF n < size(x) THEN trim_to(x, n) ELSE x
  IN [t EXCEPT !.size = n % UINT16]

resize_to_bool(x) == [size |-> 1, val |-> IF mpz_tstbit(x.val, 0) THEN 1 ELSE 0]

(***************************************************************************)
(* Operations that other operations call, or that the properties below     *)
(* apply to a value.  The remaining operations are translated in the       *)
(* actions that call them.                                                 *)
(***************************************************************************)
Max(x, y) == IF x >= y THEN x ELSE y
Min(x, y) == IF x <= y THEN x ELSE y

BoolVal(p) == IF p THEN 1 ELSE 0

bitwise_xor(x, r) ==
  resize([x EXCEPT !.val = mpz_xor(x.val, r.val)], Max(size(x), size(r)))

bitwise_not(x) == trim([x EXCEPT !.val = mpz_com(x.val)])

bitwise_sll(x, r) == trim([x EXCEPT !.val = mpz_mul_2exp(x.val, to_int(r))])

\* size_-amt-1 and size_-amt are computed in uint64_t.  When the tested bit
\* is set and size_-amt wraps, mpz_mul_2exp is asked for a shift of about
\* 2^64 bits and GMP ends the process.
bitwise_sar_aborts(x, r) ==
  LET amt == to_int(r)
      q == mpz_fdiv_q_2exp(x.val, amt)
  IN mpz_tstbit(q, size(x) - amt - 1) /\ size(x) - amt < 0

\* bitwise_sar without the workaround: the quotient alone, no sign fill
bitwise_sar_no_fill(x, r) ==
  [x EXCEPT !.val = mpz_fdiv_q_2exp(x.val, to_int(r))]

bitwise_sar(x, r) ==
  LET amt == to_int(r)
      q == mpz_fdiv_q_2exp(x.val, amt)
  IN IF mpz_tstbit(q, size(x) - amt - 1) /\ size(x) - amt >= 0
     THEN [x EXCEPT !.val =
             mpz_ior(q, mpz_mul_2exp(mpz_mul_2exp(1, amt) - 1, size(x) - amt))]
     ELSE [x EXCEPT !.val = q]

\* GMP divides by zero on purpose when the divisor is 0: the process is
\* ended by the arithmetic exception.
division_aborts(r) == r.val = 0

logical_not(x) == resize_to_bool([x EXCEPT !.val = BoolVal(~to_bool(x))])

reduce_and(x) ==
  resize_to_bool([x EXCEPT !.val = BoolVal(mpz_popcount_is(x.val, size(x)))])

\* concat shifting by the receiver's width instead of the argument's
concat_own_width(x, r) ==
  resize([x EXCEPT !.val = mpz_ior(mpz_mul_2exp(x.val, size(x)), r.val)],
         size(x) + size(r))

concat(x, r) ==
  resize([x EXCEPT !.val = mpz_ior(mpz_mul_2exp(x.val, size(r)), r.val)],
         size(x) + size(r))

slice(x, msb, lsb) ==
  resize([x EXCEPT !.val = mpz_tdiv_q_2exp(x.val, lsb)], msb - lsb + 1)

eq(x, r, msb, lsb) ==
  LET scratch1 == mpz_tdiv_q_2exp(x.val, lsb)
      scratch2 == mpz_mul_2exp(1, msb - lsb + 1) - 1
  IN mpz_cmp(mpz_and(scratch1, scratch2), r.val) = 0

\* sizeofT is sizeof(T) of the template argument
read_word(x, sizeofT, n) ==
  LET msb == Min(size(x), 8 * sizeofT * (n + 1))
      lsb == 8 * sizeofT * n
      scratch1 == mpz_tdiv_q_2exp(x.val, lsb)
      scratch2 == mpz_mul_2exp(1, msb - lsb + 1) - 1
  IN mpz_get_ui(mpz_and(scratch1, scratch2)) % (2 ^ (8 * sizeofT))

write_word(x, sizeofT, n, t) ==
  LET msb == Min(size(x), 8 * sizeofT * (n + 1))
      lsb == 8 * sizeofT * n
      mask == mpz_com(mpz_mul_2exp(mpz_mul_2exp(1, msb - lsb + 1) - 1, lsb))
      cleared == mpz_and(x.val, mask)
  IN [x EXCEPT !.val = mpz_ior(cleared, mpz_mul_2exp(t, lsb))]

assign_idx(x, idx, r) ==
  [x EXCEPT !.val = IF mpz_tstbit(r.val, 0)
                    THEN mpz_setbit(x.val, idx)
                    ELSE mpz_clrbit(x.val, idx)]

\* assign(msb, lsb, rhs) without clearing the bit range first
assign_range_no_clear(x, msb, lsb, r) ==
  LET scratch1 == mpz_mul_2exp(1, msb - lsb + 1) - 1
      part == mpz_mul_2exp(mpz_and(scratch1, r.val), lsb)
  IN [x EXCEPT !.val = mpz_ior(x.val, part)]

assign_range(x, msb, lsb, r) ==
  IF msb = lsb THEN assign_idx(x, msb, r)
  ELSE LET scratch1 == mpz_mul_2exp(1, msb - lsb + 1) - 1
           scratch2 == mpz_com(mpz_mul_2exp(scratch1, lsb))
           kept == mpz_and(x.val, scratch2)
           part == mpz_mul_2exp(mpz_and(scratch1, r.val), lsb)
       IN [x EXCEPT !.val = mpz_ior(kept, part)]

BitsEq(x, r) == x.size = r.size /\ mpz_cmp(x.val, r.val) = 0

BitsLt(x, r) == x.size < r.size \/ mpz_cmp(x.val, r.val) < 0

(***************************************************************************)
(* The operations of Bits as a state machine: a and b are built by the     *)
(* constructor Bits(n, val), then public operations are called on a, with  *)
(* b as the right-hand side where one is taken.                            *)
(***************************************************************************)
Constructed == { BitsCtor(n, v) : n \in 1..MaxW, v \in 0..((2 ^ MaxW) - 1) }

NoCall == [op |-> "Bits", i |-> 0, j |-> 0, k |-> 0]

Running == status = "ok" /\ steps < MaxOps

\* the call op(i, j, k) on a returns and leaves a as na
Do(op, i, j, k, na) ==
  /\ Running
  /\ a' = na
  /\ pre' = [a |-> a, b |-> b]
  /\ call' = [op |-> op, i |-> i, j |-> j, k |-> k]
  /\ steps' = steps + 1
  /\ UNCHANGED <<b, status, result, codecVars, stubVars>>

\* the call op on a ends the process
Die(op) ==
  /\ Running
  /\ status' = "abort"
  /\ pre' = [a |-> a, b |-> b]
  /\ call' = [op |-> op, i |-> 0, j |-> 0, k |-> 0]
  /\ steps' = steps + 1
  /\ UNCHANGED <<a, b, result, codecVars, stubVars>>

\* to_int() asserts size() <= 64; the amount is kept within the model's range
AmountOk == size(b) <= 64 /\ to_int(b) <= MaxAmt

\* the width every word-valued binary operation resizes to
MaxWidth == Max(size(a), size(b))

\* a with val_ set to v
Val(v) == [a EXCEPT !.val = v]

BitwiseAnd == Do("bitwise_and", 0, 0, 0, resize(Val(mpz_and(a.val, b.val)), MaxWidth))

BitwiseOr == Do("bitwise_or", 0, 0, 0, resize(Val(mpz_ior(a.val, b.val)), MaxWidth))

BitwiseXor == Do("bitwise_xor", 0, 0, 0, bitwise_xor(a, b))

BitwiseXnor == Do("bitwise_xnor", 0, 0, 0, bitwise_not(bitwise_xor(a, b)))

BitwiseSll == AmountOk /\ Do("bitwise_sll", 0, 0, 0, bitwise_sll(a, b))

BitwiseSal == AmountOk /\ Do("bitwise_sal", 0, 0, 0, bitwise_sll(a, b))

BitwiseSlr ==
  AmountOk /\ Do("bitwise_slr", 0, 0, 0, Val(mpz_tdiv_q_2exp(a.val, to_int(b))))

BitwiseSar ==
  /\ AmountOk
  /\ IF bitwise_sar_aborts(a, b)
     THEN Die("bitwise_sar")
     ELSE Do("bitwise_sar", 0, 0, 0, bitwise_sar(a, b))

BitwiseNot == Do("bitwise_not", 0, 0, 0, bitwise_not(a))

ArithmeticPlusUnary == Do("arithmetic_plus_unary", 0, 0, 0, a)

ArithmeticPlus == Do("arithmetic_plus", 0, 0, 0, resize(Val(a.val + b.val), MaxWidth))

ArithmeticMinusUnary == Do("arithmetic_minus_unary", 0, 0, 0, trim(Val(-a.val)))

ArithmeticMinus == Do("arithmetic_minus", 0, 0, 0, resize(Val(a.val - b.val), MaxWidth))

ArithmeticMultiply ==
  Do("arithmetic_multiply", 0, 0, 0, resize(Val(a.val * b.val), MaxWidth))

ArithmeticDivide ==
  IF division_aborts(b)
  THEN Die("arithmetic_divide")
  ELSE Do("arithmetic_divide", 0, 0, 0, resize(Val(mpz_tdiv_q(a.val, b.val)), MaxWidth))

ArithmeticMod ==
  IF division_aborts(b)
  THEN Die("arithmetic_mod")
  ELSE Do("arithmetic_mod", 0, 0, 0, resize(Val(mpz_mod(a.val, b.val)), MaxWidth))

ArithmeticPow ==
  /\ AmountOk
  /\ Abs(a.val) <= MaxBase
  /\ Do("arithmetic_pow", 0, 0, 0, trim(Val(mpz_pow_ui(a.val, to_int(b)))))

\* the logical operators set val_ to 0 or 1, then call resize_to_bool
Logical(p) == resize_to_bool(Val(BoolVal(p)))

LogicalAnd == Do("logical_and", 0, 0, 0, Logical(to_bool(a) /\ to_bool(b)))

LogicalOr == Do("logical_or", 0, 0, 0, Logical(to_bool(a) \/ to_bool(b)))

LogicalNot == Do("logical_not", 0, 0, 0, logical_not(a))

LogicalEq == Do("logical_eq", 0, 0, 0, Logical(mpz_cmp(a.val, b.val) = 0))

LogicalNe == Do("logical_ne", 0, 0, 0, Logical(mpz_cmp(a.val, b.val) # 0))

LogicalLt == Do("logical_lt", 0, 0, 0, Logical(mpz_cmp(a.val, b.val) < 0))

LogicalLte == Do("logical_lte", 0, 0, 0, Logical(mpz_cmp(a.val, b.val) <= 0))

LogicalGt == Do("logical_gt", 0, 0, 0, Logical(mpz_cmp(a.val, b.val) > 0))

LogicalGte == Do("logical_gte", 0, 0, 0, Logical(mpz_cmp(a.val, b.val) >= 0))

ReduceAnd == Do("reduce_and", 0, 0, 0, reduce_and(a))

ReduceNand == Do("reduce_nand", 0, 0, 0, logical_not(reduce_and(a)))

ReduceOr == Do("reduce_or", 0, 0, 0, Logical(mpz_cmp(a.val, 0) # 0))

ReduceNor == Do("reduce_nor", 0, 0, 0, Logical(mpz_cmp(a.val, 0) = 0))

ReduceXor == Do("reduce_xor", 0, 0, 0, Logical(mpz_odd_p(a.val)))

ReduceXnor == Do("reduce_xnor", 0, 0, 0, Logical(mpz_even_p(a.val)))

\* the width field is 16 bits wide: the sum of the widths has to fit
Concat == size(a) + size(b) < UINT16 /\ Do("concat", 0, 0, 0, concat(a, b))

\* assert(idx < size())
SliceIdx ==
  \E idx \in 0..(size(a) - 1) :
    Do("slice_idx", idx, 0, 0, resize_to_bool(Val(mpz_tdiv_q_2exp(a.val, idx))))

\* assert(msb >= lsb); assert(msb < size())
Slice ==
  \E msb \in 0..(size(a) - 1) : \E lsb \in 0..msb :
    Do("slice", msb, lsb, 0, slice(a, msb, lsb))

Flip == \E idx \in 0..(size(a) - 1) : Do("flip", idx, 0, 0, Val(mpz_combit(a.val, idx)))

Set ==
  \E idx \in 0..(size(a) - 1) : \E bit \in BOOLEAN :
    Do("set", idx, BoolVal(bit), 0,
       Val(IF bit THEN mpz_setbit(a.val, idx) ELSE mpz_clrbit(a.val, idx)))

\* T is uint8_t or uint16_t; word n starts below size()
WordSizes == {1, 2}

WriteWord ==
  \E sizeofT \in WordSizes : \E n \in 0..((size(a) - 1) \div (8 * sizeofT)) :
    \E t \in {0, 5, (2 ^ (8 * sizeofT)) - 1} :
      Do("write_word", sizeofT, n, t, write_word(a, sizeofT, n, t))

Assign ==
  Do("assign", 0, 0, 0, IF size(b) > size(a) THEN trim(Val(b.val)) ELSE Val(b.val))

AssignIdx == \E idx \in 0..(size(a) - 1) : Do("assign_idx", idx, 0, 0, assign_idx(a, idx, b))

AssignRange ==
  \E msb \in 0..(size(a) - 1) : \E lsb \in 0..msb :
    Do("assign_range", msb, lsb, 0, assign_range(a, msb, lsb, b))

\* trim_to asserts n > 0
Resize == \E n \in 1..(MaxW + 1) : Do("resize", n, 0, 0, resize(a, n))

ResizeToBool == Do("resize_to_bool", 0, 0, 0, resize_to_bool(a))

\* a = b
CopyAssign == Do("copy", 0, 0, 0, [size |-> b.size, val |-> b.val])

\* a.swap(b)
Swap ==
  /\ Running
  /\ a' = b
  /\ b' = a
  /\ pre' = [a |-> a, b |-> b]
  /\ call' = [op |-> "swap", i |-> 0, j |-> 0, k |-> 0]
  /\ steps' = steps + 1
  /\ UNCHANGED <<status, result, codecVars, stubVars>>

\* the const call op(i, j, k) on a returns r and leaves a and b as they were
Query(op, i, j, k, r) ==
  /\ Running
  /\ result' = r
  /\ pre' = [a |-> a, b |-> b]
  /\ call' = [op |-> op, i |-> i, j |-> j, k |-> k]
  /\ steps' = steps + 1
  /\ UNCHANGED <<a, b, status, codecVars, stubVars>>

\* a == b
OperatorEq == Query("operator==", 0, 0, 0, BoolVal(BitsEq(a, b)))

\* a < b
OperatorLt == Query("operator<", 0, 0, 0, BoolVal(BitsLt(a, b)))

\* read_word<T>(n); word n starts below size()
ReadWord ==
  \E sizeofT \in WordSizes : \E n \in 0..((size(a) - 1) \div (8 * sizeofT)) :
    Query("read_word", sizeofT, n, 0, read_word(a, sizeofT, n))

\* a.eq(b, msb, lsb); assert(msb >= lsb); assert(msb < size())
EqRange ==
  \E msb \in 0..(size(a) - 1) : \E lsb \in 0..msb :
    Query("eq", msb, lsb, 0, BoolVal(eq(a, b, msb, lsb)))

\* the codec and the stub core are not used by the Bits operations
CodecIdle ==
  /\ src = [size |-> 1, limbs |-> <<>>] /\ dst = [size |-> 1, limbs |-> <<>>]
  /\ os = <<>> /\ is = [bytes |-> <<>>, pos |-> 0, fail |-> FALSE]
  /\ ret = [ser |-> 0, de |-> 0] /\ phase = "idle"

StubIdle ==
  /\ core = [interface |-> 0] /\ scall = <<>>
  /\ out = [q |-> "none", r |-> FALSE] /\ ncalls = 0

Init ==
  /\ a \in Constructed
  /\ b \in Constructed
  /\ pre = [a |-> a, b |-> b]
  /\ call = NoCall
  /\ status = "ok"
  /\ steps = 0
  /\ result = 0
  /\ CodecIdle
  /\ StubIdle

Next ==
  \/ BitwiseAnd \/ BitwiseOr \/ BitwiseXor \/ BitwiseXnor
  \/ BitwiseSll \/ BitwiseSal \/ BitwiseSlr \/ BitwiseSar \/ BitwiseNot
  \/ ArithmeticPlusUnary \/ ArithmeticPlus \/ ArithmeticMinusUnary
  \/ ArithmeticMinus \/ ArithmeticMultiply \/ ArithmeticDivide
  \/ ArithmeticMod \/ ArithmeticPow
  \/ LogicalAnd \/ LogicalOr \/ LogicalNot \/ LogicalEq \/ LogicalNe
  \/ LogicalLt \/ LogicalLte \/ LogicalGt \/ LogicalGte
  \/ ReduceAnd \/ ReduceNand \/ ReduceOr \/ ReduceNor \/ ReduceXor \/ ReduceXnor
  \/ Concat \/ SliceIdx \/ Slice \/ Flip \/ Set \/ WriteWord
  \/ Assign \/ AssignIdx \/ AssignRange
  \/ Resize \/ ResizeToBool \/ CopyAssign \/ Swap
  \/ OperatorEq \/ OperatorLt \/ ReadWord \/ EqRange

Spec == Init /\ [][Next]_vars

(***************************************************************************)
(* Word access on values wider than one word: a is built by Bits(n, val)   *)
(* with a width below, at, and above the 8 bits of a uint8_t word, then    *)
(* write_word or read_word is called on it.                                *)
(***************************************************************************)
WordWidths == {4, 8, 9, MaxWordW}

WordVals == {0, 256, 511, 1365, 2748, 4095}

WordInit ==
  /\ a \in { BitsCtor(n, v) : n \in WordWidths, v \in WordVals }
  /\ b = BitsDefault
  /\ pre = [a |-> a, b |-> b]
  /\ call = NoCall
  /\ status = "ok"
  /\ steps = 0
  /\ result = 0
  /\ CodecIdle
  /\ StubIdle

WordNext == WriteWord \/ ReadWord

WordSpec == WordInit /\ [][WordNext]_vars

(***************************************************************************)
(* Properties of the Bits operations.                                      *)
(***************************************************************************)
\* the canonical form: 0 <= m < 2^w
Canonical(x) == x.size >= 1 /\ 0 <= x.val /\ x.val < 2 ^ x.size

\* bit i of a non-negative magnitude
Bit(m, i) == (m \div (2 ^ i)) % 2

Returned(op) == call.op = op /\ status = "ok"

\* C1: starting from constructed values, after any sequence of public
\* operations whose preconditions hold every Bits value is canonical:
\* 0 <= m < 2^w.
C1_CanonicalAfterEveryOperation ==
  status = "ok" => Canonical(a) /\ Canonical(b)

\* C2: on canonical a and b, arithmetic_plus, arithmetic_minus and
\* arithmetic_multiply leave a with width max(w(a), w(b)) and magnitude
\* (m(a) OP m(b)) mod 2^max(w(a), w(b)).
C2_ArithmeticWraps ==
  LET w == Max(pre.a.size, pre.b.size)
      x == pre.a.val
      y == pre.b.val
  IN (Canonical(pre.a) /\ Canonical(pre.b)) =>
       /\ Returned("arithmetic_plus") => a = [size |-> w, val |-> (x + y) % (2 ^ w)]
       /\ Returned("arithmetic_minus") => a = [size |-> w, val |-> (x - y) % (2 ^ w)]
       /\ Returned("arithmetic_multiply") => a = [size |-> w, val |-> (x * y) % (2 ^ w)]

\* C5: on canonical a, reduce_xor leaves width 1 and the parity of the set
\* bits of m(a), and reduce_xnor leaves width 1 and the complement of it.
C5_ReduceXorIsParity ==
  LET parity == PopCount(pre.a.val) % 2
  IN Canonical(pre.a) =>
       /\ Returned("reduce_xor") => a = [size |-> 1, val |-> parity]
       /\ Returned("reduce_xnor") => a = [size |-> 1, val |-> 1 - parity]

\* C6: on canonical a of width w and a shift amount k with 0 < k < w,
\* bitwise_sar keeps the width, moves bits [k, w-1] down to [0, w-k-1] and
\* fills bits [w-k, w-1] with the original sign bit w-1.
C6_SarSignExtends ==
  LET w == pre.a.size
      k == to_int(pre.b)
  IN (call.op = "bitwise_sar" /\ Canonical(pre.a) /\ 0 < k /\ k < w) =>
       /\ status = "ok"
       /\ a.size = w
       /\ Canonical(a)
       /\ \A i \in 0..(w - k - 1) : Bit(a.val, i) = Bit(pre.a.val, i + k)
       /\ \A i \in (w - k)..(w - 1) : Bit(a.val, i) = Bit(pre.a.val, w - 1)

\* a negative value of width 3 shifted by 1 has been sign-extended
C6_Witness ==
  /\ Returned("bitwise_sar")
  /\ pre.a = [size |-> 3, val |-> 4]
  /\ to_int(pre.b) = 1
  /\ a = [size |-> 3, val |-> 6]

\* C7: on canonical a and b, a.concat(b) has width w(a)+w(b); its slice
\* (w(b)+w(a)-1, w(b)) equals the original a and its slice (w(b)-1, 0)
\* equals b.
C7_ConcatSliceRoundTrip ==
  LET wa == pre.a.size
      wb == pre.b.size
  IN (Returned("concat") /\ Canonical(pre.a) /\ Canonical(pre.b)) =>
       /\ a.size = wa + wb
       /\ BitsEq(slice(a, wb + wa - 1, wb), pre.a)
       /\ BitsEq(slice(a, wb - 1, 0), pre.b)

\* two values of different widths, both with mixed bits, have been joined
C7_Witness ==
  /\ Returned("concat")
  /\ pre.a = [size |-> 2, val |-> 2]
  /\ pre.b = [size |-> 3, val |-> 5]
  /\ a = [size |-> 5, val |-> 21]

\* C9: on canonical a and b with m(b) = 0, arithmetic_divide and
\* arithmetic_mod complete and leave a with magnitude 0 and width
\* max(w(a), w(b)); no abort is reached.
C9_DivideByZeroGivesZero ==
  (/\ call.op \in {"arithmetic_divide", "arithmetic_mod"}
   /\ Canonical(pre.a) /\ Canonical(pre.b) /\ pre.b.val = 0) =>
     /\ status = "ok"
     /\ a = [size |-> Max(pre.a.size, pre.b.size), val |-> 0]

\* C10: on canonical a of width w <= 64, a shift by w leaves width w and
\* magnitude 0 for bitwise_sll, bitwise_sal and bitwise_slr; bitwise_sar
\* leaves 0 when the original bit w-1 is 0 and 2^w - 1 when it is 1.
C10_ShiftByFullWidth ==
  LET w == pre.a.size
  IN (Canonical(pre.a) /\ w <= 64 /\ to_int(pre.b) = w) =>
       /\ call.op \in {"bitwise_sll", "bitwise_sal", "bitwise_slr"} =>
            status = "ok" /\ a = [size |-> w, val |-> 0]
       /\ call.op = "bitwise_sar" =>
            /\ status = "ok"
            /\ a = [size |-> w,
                    val |-> IF Bit(pre.a.val, w - 1) = 1 THEN (2 ^ w) - 1 ELSE 0]

\* the lexicographic order on (width, magnitude)
Lexicographic(x, y) == x.size < y.size \/ (x.size = y.size /\ x.val < y.val)

\* C11: for canonical a and b, a < b returns true iff w(a) < w(b), or
\* w(a) = w(b) and m(a) < m(b); a < b and b < a never both hold, and exactly
\* one of a < b, b < a, a == b holds.
C11_LessIsLexicographicOrder ==
  Returned("operator<") /\ Canonical(a) /\ Canonical(b) =>
    /\ (result = 1) <=> Lexicographic(a, b)
    /\ ~(BitsLt(a, b) /\ BitsLt(b, a))
    /\ BoolVal(BitsLt(a, b)) + BoolVal(BitsLt(b, a)) + BoolVal(BitsEq(a, b)) = 1

\* C12: for canonical a of width w, write_word<T>(n, t) with n*B < w,
\* B = 8*sizeof(T), leaves the width unchanged, leaves every bit of a outside
\* the window [n*B, min(w, (n+1)*B)) as it was, and a following
\* read_word<T>(n) returns t restricted to the window.
C12_WriteWordFrame ==
  Returned("write_word") /\ Canonical(pre.a) =>
    LET w == pre.a.size
        B == 8 * call.i
        lo == call.j * B
        hi == Min(w, (call.j + 1) * B)
    IN /\ a.size = w
       /\ a.val >= 0
       /\ \A i \in 0..(w - 1) :
            (i < lo \/ i >= hi) => Bit(a.val, i) = Bit(pre.a.val, i)
       /\ read_word(a, call.i, call.j) = call.k % (2 ^ (hi - lo))

\* C13: for canonical a, lsb <= msb < w(a) and x with m(x) < 2^(msb-lsb+1),
\* after a.assign(msb, lsb, x) the call a.eq(x, msb, lsb) returns true, the
\* width of a is unchanged and the bits of a outside [lsb, msb] are unchanged
\* (msb = lsb takes the single-bit path).
C13_AssignRangeThenEq ==
  /\ Returned("assign_range")
  /\ Canonical(pre.a)
  /\ 0 <= pre.b.val /\ pre.b.val < 2 ^ (call.i - call.j + 1)
  => /\ eq(a, pre.b, call.i, call.j)
     /\ a.size = pre.a.size
     /\ a.val >= 0
     /\ a.val \div (2 ^ (call.i + 1)) = pre.a.val \div (2 ^ (call.i + 1))
     /\ a.val % (2 ^ call.j) = pre.a.val % (2 ^ call.j)

\* Bits(3, 5).assign(1, 0, Bits(2, 2)) has returned and left 6
C13_Witness ==
  /\ Returned("assign_range") /\ call.i = 1 /\ call.j = 0
  /\ pre.a = [size |-> 3, val |-> 5] /\ pre.b = [size |-> 2, val |-> 2]
  /\ a = [size |-> 3, val |-> 6]

(***************************************************************************)
(* The binary codec.  A magnitude of the codec can be longer than the      *)
(* 1024-byte buffer, so here val_ is kept the way GMP stores it, as its    *)
(* digits, least significant first and without leading zeros; the digits   *)
(* are bytes.  A Bits object of the codec is [size |-> size_, limbs |->    *)
(* the digits of val_].                                                    *)
(***************************************************************************)
\* char buffer[1024]
BufferSize == 1024

RECURSIVE Limbs(_)
Limbs(v) == IF v = 0 THEN <<>> ELSE <<v % 256>> \o Limbs(v \div 256)

Reverse(s) == [i \in 1..Len(s) |-> s[Len(s) + 1 - i]]

\* drop the zero digits at the most significant end
RECURSIVE Normalize(_)
Normalize(s) ==
  IF s = <<>> THEN <<>>
  ELSE IF s[Len(s)] = 0 THEN Normalize(SubSeq(s, 1, Len(s) - 1))
  ELSE s

\* mpz_export with order -1: least significant byte first
mpz_export_lsb_first(limbs) == limbs

\* mpz_export(buffer, &len, 1, sizeof(char), 0, 0, val_): the bytes of the
\* magnitude, most significant first; none for 0
mpz_export(limbs) == Reverse(limbs)

\* mpz_import(val_, len, 1, sizeof(char), 0, 0, buffer)
mpz_import(bytes) == Normalize(Reverse(bytes))

\* a uint16_t in memory (host order, little-endian)
U16Bytes(n) == <<n % 256, n \div 256>>

\* the uint16_t whose first Len(got) bytes are overwritten by got
StoreU16(old, got) ==
  LET ob == U16Bytes(old)
      nb == [i \in 1..2 |-> IF i <= Len(got) THEN got[i] ELSE ob[i]]
  IN nb[1] + 256 * nb[2]

\* the bytes serialize writes: size_, l, then the magnitude
serialize(x) ==
  LET buffer == mpz_export(x.limbs)
      l == Len(buffer) % UINT16
  IN [bytes |-> U16Bytes(x.size) \o U16Bytes(l) \o buffer,
      ret |-> 2 + 2 + Len(buffer)]

\* mpz_export writes past the end of the buffer
serialize_overflows(x) == Len(mpz_export(x.limbs)) > BufferSize

\* istream::read(p, n): nothing on a failed stream; otherwise the bytes
\* that are left, up to n, and failbit when they are fewer than n
istream_read(s, n) ==
  IF s.fail THEN [stream |-> s, got |-> <<>>]
  ELSE LET avail == Len(s.bytes) - s.pos
           k == Min(n, avail)
       IN [stream |-> [s EXCEPT !.pos = s.pos + k, !.fail = k < n],
           got |-> SubSeq(s.bytes, s.pos + 1, s.pos + k)]

\* the three reads of deserialize
deserialize_reads(x, s) ==
  LET r1 == istream_read(s, 2)
      r2 == istream_read(r1.stream, 2)
      l == StoreU16(0, r2.got)
      r3 == istream_read(r2.stream, l)
  IN [size |-> StoreU16(x.size, r1.got), l |-> l,
      got |-> r3.got, stream |-> r3.stream]

\* the bytes of buffer[0..l) that no read has written
deserialize_unwritten(x, s) ==
  LET r == deserialize_reads(x, s) IN r.l - Len(r.got)

\* is.read or mpz_import goes past the end of the buffer
deserialize_overflows(x, s) == deserialize_reads(x, s).l > BufferSize

\* deserialize, with junk standing for the unwritten bytes of the buffer
deserialize(x, s, junk) ==
  LET r == deserialize_reads(x, s)
  IN [bits |-> [size |-> r.size, limbs |-> mpz_import(r.got \o junk)],
      stream |-> r.stream,
      ret |-> 2 + 2 + r.l]

(***************************************************************************)
(* The codec as a state machine: src is serialized to os; an input stream  *)
(* is opened on what was written, on a prefix of it, or on a stream whose  *)
(* header announces more than 1024 bytes; dst is deserialized from it.     *)
(* Going past the end of the stack buffer is undefined behaviour: the      *)
(* process is ended, or the call carries on as if the buffer were long     *)
(* enough.                                                                 *)
(***************************************************************************)
CodecBits(n, v) == [size |-> n, limbs |-> Limbs(v)]

\* the largest magnitude that fits the buffer, and the smallest that does not
LargestFitting ==
  [size |-> 8 * BufferSize, limbs |-> [i \in 1..BufferSize |-> 255]]

SmallestOverflowing ==
  [size |-> 8 * BufferSize + 1,
   limbs |-> [i \in 1..(BufferSize + 1) |-> IF i = BufferSize + 1 THEN 1 ELSE 0]]

Serialized ==
  { CodecBits(x.size, x.val) : x \in Constructed }
    \cup { CodecBits(9, 256), CodecBits(16, 43981), CodecBits(32, 5) }
    \cup { LargestFitting, SmallestOverflowing }

Receivers == { CodecBits(1, 0), CodecBits(4, 5), CodecBits(300, 7) }

\* a stream whose header announces one byte more than the buffer holds
OversizedStream ==
  U16Bytes(16) \o U16Bytes(BufferSize + 1) \o [i \in 1..(BufferSize + 1) |-> 1]

\* what an unwritten byte of the buffer may hold
GarbageBytes == {0, 255}

BitsIdle ==
  /\ a = BitsDefault /\ b = BitsDefault
  /\ pre = [a |-> BitsDefault, b |-> BitsDefault]
  /\ call = NoCall /\ status = "ok" /\ steps = 0 /\ result = 0

CodecInit ==
  /\ src \in Serialized
  /\ dst \in Receivers
  /\ os = <<>>
  /\ is = [bytes |-> <<>>, pos |-> 0, fail |-> FALSE]
  /\ ret = [ser |-> 0, de |-> 0]
  /\ phase = "start"
  /\ BitsIdle
  /\ StubIdle

Serialize ==
  /\ phase = "start"
  /\ os' = serialize(src).bytes
  /\ ret' = [ret EXCEPT !.ser = serialize(src).ret]
  /\ phase' = "serialized"
  /\ UNCHANGED <<src, dst, is, bitsVars, stubVars>>

SerializeOverflow ==
  /\ phase = "start"
  /\ serialize_overflows(src)
  /\ phase' = "serialize_abort"
  /\ UNCHANGED <<src, dst, os, is, ret, bitsVars, stubVars>>

Open ==
  /\ phase = "serialized"
  /\ \E bytes \in {os, OversizedStream}
                    \cup { SubSeq(os, 1, n) : n \in 0..(IF Len(os) <= MaxStream
                                                        THEN Len(os) - 1 ELSE -1) } :
       is' = [bytes |-> bytes, pos |-> 0, fail |-> FALSE]
  /\ phase' = "opened"
  /\ UNCHANGED <<src, dst, os, ret, bitsVars, stubVars>>

Deserialize ==
  /\ phase = "opened"
  /\ \E junk \in [1..deserialize_unwritten(dst, is) -> GarbageBytes] :
       LET d == deserialize(dst, is, junk)
       IN /\ dst' = d.bits
          /\ is' = d.stream
          /\ ret' = [ret EXCEPT !.de = d.ret]
  /\ phase' = "deserialized"
  /\ UNCHANGED <<src, os, bitsVars, stubVars>>

DeserializeOverflow ==
  /\ phase = "opened"
  /\ deserialize_overflows(dst, is)
  /\ phase' = "deserialize_abort"
  /\ UNCHANGED <<src, dst, os, is, ret, bitsVars, stubVars>>

CodecNext ==
  \/ Serialize \/ SerializeOverflow \/ Open \/ Deserialize \/ DeserializeOverflow

CodecSpec == CodecInit /\ [][CodecNext]_vars

(***************************************************************************)
(* Properties of the codec.                                                *)
(***************************************************************************)
RECURSIVE ByteBits(_)
ByteBits(v) == IF v = 0 THEN 0 ELSE 1 + ByteBits(v \div 2)

\* the number of significant bits of a magnitude
BitLength(limbs) ==
  IF limbs = <<>> THEN 0 ELSE 8 * (Len(limbs) - 1) + ByteBits(limbs[Len(limbs)])

\* 1 <= w <= 65535 and 0 <= m < 2^w
ValidBits(x) ==
  /\ 1 <= x.size /\ x.size < UINT16
  /\ Normalize(x.limbs) = x.limbs
  /\ BitLength(x.limbs) <= x.size

\* deserialize was called on exactly the bytes serialize wrote
ReadBack == is.bytes = os /\ phase \in {"deserialized", "deserialize_abort"}

RoundTrips ==
  /\ phase # "serialize_abort"
  /\ ReadBack =>
       /\ phase = "deserialized"
       /\ dst = src
       /\ ret.ser = 4 + Len(src.limbs)
       /\ ret.de = ret.ser

\* C3 as stated: for every valid Bits a (1 <= w <= 65535, 0 <= m < 2^w),
\* deserializing the bytes written by a.serialize() into any Bits b yields
\* b == a, and both calls report the byte count 4 + L.
C3_BinaryRoundTrip == ValidBits(src) => RoundTrips

\* C3 as amended: the same for every valid Bits a whose magnitude takes at
\* most 1024 bytes (m < 2^8192), the length the codec's buffer holds.
C3_BinaryRoundTripWithinBuffer ==
  (ValidBits(src) /\ Len(src.limbs) <= BufferSize) => RoundTrips

\* a two-byte magnitude has been written and read back into another object
C3_Witness ==
  /\ phase = "deserialized"
  /\ is.bytes = os
  /\ os = <<16, 0, 2, 0, 171, 205>>
  /\ src = CodecBits(16, 43981)
  /\ dst = src
  /\ ret = [ser |-> 6, de |-> 6]

\* the stream ends before the header or before the announced magnitude does
Truncated(bytes) ==
  \/ Len(bytes) < 4
  \/ Len(bytes) < 4 + StoreU16(0, SubSeq(bytes, 3, 4))

\* the header announces more than 1024 magnitude bytes
Oversized(bytes) ==
  Len(bytes) >= 4 /\ StoreU16(0, SubSeq(bytes, 3, 4)) > BufferSize

\* C8: when deserialize is given a truncated stream or a header with
\* L > 1024, the call returns, the failure is visible to the caller, and the
\* receiving Bits ends with w = 1 and m = 0 whatever it held before.
C8_DeserializationFailure ==
  (/\ phase \in {"deserialized", "deserialize_abort"}
   /\ Truncated(is.bytes) \/ Oversized(is.bytes)) =>
     /\ phase = "deserialized"
     /\ is.fail
     /\ dst = [size |-> 1, limbs |-> <<>>]

(***************************************************************************)
(* The stub core.  A StubCore has no fields of its own; it holds the       *)
(* Interface reference of its base class Core.  A State or an Input is a   *)
(* map from variable ids to Bits, empty when constructed.                  *)
(***************************************************************************)
StateCtor == <<>>

InputCtor == <<>>

StubCore(interface) == [interface |-> interface]

get_state(c) == StateCtor

set_state(c, s) == c

get_input(c) == InputCtor

set_input(c, i) == c

read(c, id, bits) == c

evaluate(c) == c

\* a stub that reports updates
there_are_updates_true(c) == TRUE

there_are_updates(c) == FALSE

update(c) == c

there_were_tasks(c) == FALSE

is_stub(c) == TRUE

(***************************************************************************)
(* The stub core as a state machine: a scheduler constructs it, makes any  *)
(* calls on it and asks its queries at any point.                          *)
(***************************************************************************)
\* the variable ids and values a caller passes
VIds == {0, 1}

PassedBits == { BitsCtor(8, 1), BitsCtor(1, 0), BitsCtor(MaxW, 5) }

\* the snapshots a caller passes: empty, or holding one variable
Snapshots ==
  { StateCtor } \cup { [id \in {v} |-> x] : v \in VIds, x \in PassedBits }

StubInit ==
  /\ core = StubCore(0)
  /\ scall = <<>>
  /\ out = [q |-> "none", r |-> FALSE]
  /\ ncalls = 0
  /\ BitsIdle
  /\ CodecIdle

\* a call that returns nothing; a query leaves its result in out
Called(c, nc) ==
  /\ ncalls < MaxCalls
  /\ core' = nc
  /\ scall' = Append(scall, c)
  /\ ncalls' = ncalls + 1
  /\ UNCHANGED <<out, bitsVars, codecVars>>

SetState ==
  \E s \in Snapshots : Called([op |-> "set_state", arg |-> s], set_state(core, s))

SetInput ==
  \E i \in Snapshots : Called([op |-> "set_input", arg |-> i], set_input(core, i))

Read ==
  \E id \in VIds : \E x \in PassedBits :
    Called([op |-> "read", arg |-> <<id, x>>], read(core, id, x))

Evaluate == Called([op |-> "evaluate", arg |-> <<>>], evaluate(core))

Update == Called([op |-> "update", arg |-> <<>>], update(core))

GetState ==
  /\ out' = [q |-> "get_state", r |-> get_state(core)]
  /\ UNCHANGED <<core, scall, ncalls, bitsVars, codecVars>>

GetInput ==
  /\ out' = [q |-> "get_input", r |-> get_input(core)]
  /\ UNCHANGED <<core, scall, ncalls, bitsVars, codecVars>>

ThereAreUpdates ==
  /\ out' = [q |-> "there_are_updates", r |-> there_are_updates(core)]
  /\ UNCHANGED <<core, scall, ncalls, bitsVars, codecVars>>

ThereWereTasks ==
  /\ out' = [q |-> "there_were_tasks", r |-> there_were_tasks(core)]
  /\ UNCHANGED <<core, scall, ncalls, bitsVars, codecVars>>

IsStub ==
  /\ out' = [q |-> "is_stub", r |-> is_stub(core)]
  /\ UNCHANGED <<core, scall, ncalls, bitsVars, codecVars>>

StubNext ==
  \/ SetState \/ SetInput \/ Read \/ Evaluate \/ Update
  \/ GetState \/ GetInput \/ ThereAreUpdates \/ ThereWereTasks \/ IsStub

StubSpec == StubInit /\ [][StubNext]_vars

\* C4: after any sequence of set_state, set_input, read, evaluate and update
\* calls, there_are_updates() and there_were_tasks() return false, is_stub()
\* returns true, get_state() and get_input() return objects equal to freshly
\* constructed ones, and the core is as it was constructed.
C4_StubIgnoresEveryCall ==
  /\ core = StubCore(0)
  /\ out.q = "there_are_updates" => out.r = FALSE
  /\ out.q = "there_were_tasks" => out.r = FALSE
  /\ out.q = "is_stub" => out.r = TRUE
  /\ out.q = "get_state" => out.r = StateCtor
  /\ out.q = "get_input" => out.r = InputCtor
  /\ there_are_updates(core) = FALSE
  /\ there_were_tasks(core) = FALSE
  /\ is_stub(core) = TRUE
  /\ get_state(core) = StateCtor
  /\ get_input(core) = InputCtor

\* read(id, Bits(8, 1)) then evaluate, then there_are_updates() was asked
C4_Witness ==
  /\ scall = << [op |-> "read", arg |-> <<1, BitsCtor(8, 1)>>],
                [op |-> "evaluate", arg |-> <<>>] >>
  /\ out = [q |-> "there_are_updates", r |-> FALSE]

====
